---- MODULE Spec2Model ----
(***************************************************************************)
(* A model of the bowie-tracker pipeline: the checkpointed crawler of      *)
(* fetch_bowie_data.py (with the supervisor of supervisor_fetch.py that    *)
(* restarts it), its merge of releases into release groups, and the lookup *)
(* builder of generate_lookup.py.                                          *)
(***************************************************************************)
EXTENDS Integers, Sequences, FiniteSets, TLC

(***************************************************************************)
(* Bounds of the model.                                                    *)
(***************************************************************************)
\* Largest catalog (number of releases the API holds) under Spec.
MaxCatalog == 13
\* Largest catalog under SpecE2E.
MaxE2E == 200
\* Fetches (list or detail) the environment may fail in one behaviour of Spec.
MaxFaults == 1
\* Crawler runs the supervisor may start in one behaviour of Spec.
MaxRuns == 2
\* Releases in the catalog of SpecSup.
MaxSupCatalog == 3
\* Folds in one behaviour of SpecMerge.
MaxMerges == 3
\* Release groups of a database handed to the lookup builder in SpecLookup.
MaxGroups == 2

(***************************************************************************)
(* Program constants.                                                      *)
(***************************************************************************)
PageSize == 100
CheckpointEvery == 10

(***************************************************************************)
(* Text.  A string is the sequence of its characters, so that len(),       *)
(* lower() and the "in" substring test are computed, not assumed.          *)
(***************************************************************************)
UpperChars == <<"A","B","C","D","E","F","G","H","I","J","K","L","M",
                "N","O","P","Q","R","S","T","U","V","W","X","Y","Z">>
LowerChars == <<"a","b","c","d","e","f","g","h","i","j","k","l","m",
                "n","o","p","q","r","s","t","u","v","w","x","y","z">>

LowerChar(c) ==
  IF \E k \in 1..Len(UpperChars) : UpperChars[k] = c
  THEN LowerChars[CHOOSE k \in 1..Len(UpperChars) : UpperChars[k] = c]
  ELSE c

\* str.lower()
Lower(s) == [k \in 1..Len(s) |-> LowerChar(s[k])]

\* sub in s
Contains(sub, s) ==
  \E k \in 0..(Len(s) - Len(sub)) :
    \A j \in 1..Len(sub) : s[k + j] = sub[j]

(***************************************************************************)
(* JSON values.  null in a string field is Null; a null or missing image   *)
(* URL, recording id or length is the falsy value of its type.             *)
(***************************************************************************)
Null == "null"
NoImage == <<>>
ImageUrl(rel_id) == <<"https://coverartarchive.org/release/", rel_id, "/front-250">>

\* Titles used by the catalog and by the databases of SpecLookup.
T_Low == <<"L","o","w">>
T_LiveInBerlin ==
  <<"L","i","v","e"," ","i","n"," ","B","e","r","l","i","n"," ","(","L","i","v","e",")">>
T_GreatestHits == <<"G","r","e","a","t","e","s","t"," ","H","i","t","s">>
T_Best == <<"B","e","s","t">>
T_A == <<"A">>
T_a == <<"a">>
T_B == <<"B">>

(***************************************************************************)
(* State.                                                                  *)
(***************************************************************************)
VARIABLES
  catalogSize,        \* the number of releases the catalog API holds
  catalogGaps,        \* whether the catalog has releases without a release group
  dbFile,             \* bowie_metadata.json
  tmpFile,            \* bowie_metadata.json.tmp
  progFile,           \* .processed_releases.json
  pc,                 \* where the crawler process is; "none" when there is none
  final_db, processed_rel_ids, all_releases, offset, i, processed_this_run,
  supPc, is_complete, \* the supervisor
  runs,               \* crawler runs started so far
  faults,             \* fetches failed so far
  listOffsets,        \* history: the offsets of this run's list requests
  checkpoints,        \* history: periodic checkpoints completed in this run
  finalWrites,        \* history: final writes completed in this run
  pageFailed,         \* history: a list request of this run failed
  skipped,            \* history: releases whose detail fetch failed in this run
  fetched,            \* history: releases detail-fetched in this run
  marker,             \* history: this run printed the completion marker
  startProcessed,     \* history: processed_rel_ids as loaded by this run
  everPersisted,      \* history: ids a completed write of progFile contained
  preDb, newDb,       \* history: dbFile before its latest write, and the
                      \* content that write was given
  crashPc,            \* history: where the latest crash hit
  log, prev_db,       \* SpecMerge: the folds so far, the database before the last
  lpc,                \* where build_lookup() is; "none" when it does not run
  full_db, sorted_rgs, lpos, lookup,
  lookupFile,         \* bowie_lookup.json: the dumped index, or NoLookup
  name_map,           \* process_metadata's name_map
  npos,               \* how many groups process_metadata has gone through
  fpc,                \* where a call of fetch_json() is; "none" when there is none
  attempt,            \* its loop variable
  fresult,            \* what it returned
  outcomes,           \* history: the outcome of each session.get of the call
  slept               \* history: the time the call slept, in tenths of a second

disk == <<dbFile, tmpFile, progFile>>
mem == <<final_db, processed_rel_ids, all_releases, offset, i, processed_this_run>>
sup == <<supPc, is_complete, runs>>
runHist == <<listOffsets, checkpoints, finalWrites, pageFailed, skipped, fetched,
             marker, startProcessed>>
hist == <<faults, everPersisted, preDb, newDb, crashPc>>
mergeVars == <<log, prev_db>>
nmVars == <<name_map, npos>>
lookupVars == <<lpc, full_db, sorted_rgs, lpos, lookup, lookupFile, nmVars>>
fetchVars == <<fpc, attempt, fresult, outcomes, slept>>
catalog == <<catalogSize, catalogGaps>>
vars == <<catalog, fetchVars, disk, pc, mem, sup, runHist, hist, mergeVars, lookupVars>>

(***************************************************************************)
(* The catalog API (external).  Release ids are 1..catalogSize; what the   *)
(* API answers for release k is fixed by k:                                *)
(*   GET /release?...&offset=n -> releases n+1 .. min(n+100, size)         *)
(*   GET /release/<k>?inc=recordings -> {media: [{tracks: [...]}]}         *)
(***************************************************************************)
\* One release-group reference of a list entry; id 0 when the entry has none.
ReleaseGroupOf(k) ==
  IF catalogGaps /\ k % 8 = 2
  THEN [id |-> 0, hasTitle |-> FALSE, title |-> <<>>, type |-> Null]
  ELSE [id       |-> 1 + (k % 2),
        hasTitle |-> (k % 5 # 1),
        title    |-> IF k % 2 = 0 THEN T_Low ELSE T_GreatestHits,
        type     |-> IF k % 4 = 0 THEN Null ELSE "Album"]

\* One entry of data["releases"].
Release(k) ==
  [id    |-> k,
   title |-> IF k % 2 = 0 THEN T_Best ELSE T_LiveInBerlin,
   rg    |-> ReleaseGroupOf(k),
   front |-> (k % 3 = 0)]

\* One track of a medium: recording id 0 when the track links none; length 0
\* when the length is null, absent or 0 (all falsy).
Trk(rec, hasTitle, title, rtitle, length, rlength) ==
  [rec |-> rec, hasTitle |-> hasTitle, title |-> title, rtitle |-> rtitle,
   length |-> length, rlength |-> rlength]

\* A tracklist of n tracks over the recordings 1..3.
LongMedium(n) ==
  [j \in 1..n |-> Trk(1 + (j % 3), TRUE, T_A, T_B, j, 0)]

\* The "media" of a release detail.
MediaA == << <<Trk(1, TRUE, T_A, T_B, 5, 7), Trk(2, FALSE, <<>>, T_B, 0, 7)>> >>
MediaB == << <<Trk(1, TRUE, T_a, T_A, 0, 0)>>,
             <<Trk(1, TRUE, T_B, T_A, 9, 0), Trk(0, TRUE, T_A, T_A, 3, 3)>> >>
MediaC == << >>
MediaD == << <<Trk(3, TRUE, T_B, T_B, 4, 0), Trk(2, TRUE, T_a, T_B, 6, 0)>> >>
Media8 == << LongMedium(3), LongMedium(5) >>
Media12 == << LongMedium(12) >>

Detail(k) ==
  [media |-> CASE k % 4 = 0 -> MediaA
               [] k % 4 = 1 -> MediaB
               [] k % 4 = 2 -> MediaC
               [] OTHER     -> MediaD]

\* data["releases"] of the list request at the given offset.
Page(size, off) ==
  [j \in 1..(IF size - off > PageSize THEN PageSize
             ELSE IF size - off > 0 THEN size - off ELSE 0) |-> off + j]

(***************************************************************************)
(* Files.  A file holds the tokens json.dump wrote; a write that did not   *)
(* finish leaves a proper prefix of them, which json.load rejects.         *)
(***************************************************************************)
NoFile == [exists |-> FALSE, data |-> <<>>]
FileOf(tokens) == [exists |-> TRUE, data |-> tokens]
Tok(kind, val) == [tok |-> kind, val |-> val]

\* json.dump(final_db, f, indent=2): the entries of the dict in its order.
DumpDb(db) ==
  <<Tok("{", <<>>)>> \o [k \in 1..Len(db) |-> Tok("entry", <<db[k]>>)]
                     \o <<Tok("}", <<>>)>>

RECURSIVE SortedList(_)
\* list(processed_rel_ids); the order of a set's elements is immaterial to
\* the reader, which rebuilds the set.
SortedList(S) ==
  IF S = {} THEN <<>>
  ELSE LET m == CHOOSE x \in S : \A y \in S : x <= y
       IN <<m>> \o SortedList(S \ {m})

\* json.dump(list(processed_rel_ids), f)
DumpIds(S) ==
  LET l == SortedList(S)
  IN <<Tok("[", <<>>)>> \o [k \in 1..Len(l) |-> Tok("entry", <<l[k]>>)]
                        \o <<Tok("]", <<>>)>>

\* Whether json.load accepts the content as an object or an array.
JsonValid(data, open, close) ==
  /\ Len(data) >= 2
  /\ data[1].tok = open
  /\ data[Len(data)].tok = close
  /\ \A k \in 2..(Len(data) - 1) : data[k].tok = "entry"

\* json.load(f) of the database file.
LoadDb(data) == [k \in 1..(Len(data) - 2) |-> data[k + 1].val[1]]

\* set(json.load(f)) of the progress file.
LoadIds(data) == {data[k].val[1] : k \in 2..(Len(data) - 1)}

(***************************************************************************)
(* The merge of one release and its detail into the database.  The         *)
(* database is the dict final_db in insertion order: a sequence of records *)
(* with distinct rg.                                                       *)
(***************************************************************************)
\* rg_id in final_db; the position of the key, 0 when absent.
Find(db, rg_id) ==
  IF \E k \in 1..Len(db) : db[k].rg = rg_id
  THEN CHOOSE k \in 1..Len(db) : db[k].rg = rg_id
  ELSE 0

NewRecord(rel) ==
  [rg          |-> rel.rg.id,
   title       |-> IF rel.rg.hasTitle THEN rel.rg.title ELSE rel.title,
   type        |-> rel.rg.type,
   track_count |-> 0,
   image_url   |-> NoImage,
   tracks      |-> <<>>]

\* A merge that takes the cover art of every release that has one.
SetImage_LastWins(image_url, rel) ==
  IF rel.front THEN ImageUrl(rel.id) ELSE image_url

\* The image of the record after this release.
SetImage(image_url, rel) ==
  IF image_url = NoImage /\ rel.front THEN ImageUrl(rel.id) ELSE image_url

RECURSIVE AllTracks(_)
\* The tracks of all media, in the order the two loops visit them.
AllTracks(media) ==
  IF media = <<>> THEN <<>> ELSE Head(media) \o AllTracks(Tail(media))

TrackIds(tracks) == {tracks[k].id : k \in 1..Len(tracks)}

TrackTitle(t) == IF t.hasTitle THEN t.title ELSE t.rtitle

TrackDuration(t) ==
  IF t.length # 0 THEN t.length ELSE IF t.rlength # 0 THEN t.rlength ELSE 0

TrackEntry(t) ==
  [id |-> t.rec, title |-> TrackTitle(t), duration_ms |-> TrackDuration(t)]

\* A membership test that forgets the tracks already in the group.
IsNewTrack_NoDedup(rec_id, existing_track_ids) == rec_id # 0

\* rec_id and rec_id not in existing_track_ids
IsNewTrack(rec_id, existing_track_ids) ==
  rec_id # 0 /\ rec_id \notin existing_track_ids

RECURSIVE MergeTracks(_, _)
MergeTracks(tracks, ts) ==
  IF ts = <<>> THEN tracks
  ELSE IF IsNewTrack(Head(ts).rec, TrackIds(tracks))
       THEN MergeTracks(Append(tracks, TrackEntry(Head(ts))), Tail(ts))
       ELSE MergeTracks(tracks, Tail(ts))

\* A track count that adds the releases up.
NewTrackCount_Sum(old, current_rel_track_count) == old + current_rel_track_count

\* A track count that keeps the latest release's.
NewTrackCount_Latest(old, current_rel_track_count) == current_rel_track_count

\* max(final_db[rg_id].get("track_count", 0), current_rel_track_count)
NewTrackCount(old, current_rel_track_count) ==
  IF old >= current_rel_track_count THEN old ELSE current_rel_track_count

\* A merge that starts a fresh record for every release, as the loop would
\* without `if rg_id not in final_db`.
Fold_Overwrite(db, rel, details) ==
  LET k0  == Find(db, rel.rg.id)
      db1 == IF k0 = 0 THEN Append(db, NewRecord(rel))
             ELSE [db EXCEPT ![k0] = NewRecord(rel)]
      k   == Find(db1, rel.rg.id)
      r   == db1[k]
      ts  == AllTracks(details.media)
  IN [db1 EXCEPT ![k] =
        [r EXCEPT !.image_url   = SetImage(r.image_url, rel),
                  !.tracks      = MergeTracks(r.tracks, ts),
                  !.track_count = NewTrackCount(r.track_count, Len(ts))]]

\* The body of the detail loop from the creation of the record to the track
\* count.
Fold(db, rel, details) ==
  LET db1 == IF Find(db, rel.rg.id) = 0 THEN Append(db, NewRecord(rel)) ELSE db
      k   == Find(db1, rel.rg.id)
      r   == db1[k]
      ts  == AllTracks(details.media)
  IN [db1 EXCEPT ![k] =
        [r EXCEPT !.image_url   = SetImage(r.image_url, rel),
                  !.tracks      = MergeTracks(r.tracks, ts),
                  !.track_count = NewTrackCount(r.track_count, Len(ts))]]

(***************************************************************************)
(* The lookup builder: generate_lookup.py build_lookup().                  *)
(***************************************************************************)
CANONICAL_ALBUMS ==
  {<<"d","a","v","i","d"," ","b","o","w","i","e">>,
   <<"s","p","a","c","e"," ","o","d","d","i","t","y">>,
   <<"t","h","e"," ","m","a","n"," ","w","h","o"," ","s","o","l","d"," ","t",
     "h","e"," ","w","o","r","l","d">>,
   <<"h","u","n","k","y"," ","d","o","r","y">>,
   <<"t","h","e"," ","r","i","s","e"," ","a","n","d"," ","f","a","l","l"," ",
     "o","f"," ","z","i","g","g","y"," ","s","t","a","r","d","u","s","t"," ",
     "a","n","d"," ","t","h","e"," ","s","p","i","d","e","r","s"," ","f","r",
     "o","m"," ","m","a","r","s">>,
   <<"a","l","a","d","d","i","n"," ","s","a","n","e">>,
   <<"p","i","n"," ","u","p","s">>,
   <<"d","i","a","m","o","n","d"," ","d","o","g","s">>,
   <<"y","o","u","n","g"," ","a","m","e","r","i","c","a","n","s">>,
   <<"s","t","a","t","i","o","n"," ","t","o"," ","s","t","a","t","i","o","n">>,
   <<"l","o","w">>,
   <<"\"","h","e","r","o","e","s","\"">>,
   <<"l","o","d","g","e","r">>,
   <<"s","c","a","r","y"," ","m","o","n","s","t","e","r","s"," ","(","a","n",
     "d"," ","s","u","p","e","r"," ","c","r","e","e","p","s",")">>,
   <<"l","e","t","'","s"," ","d","a","n","c","e">>,
   <<"t","o","n","i","g","h","t">>,
   <<"n","e","v","e","r"," ","l","e","t"," ","m","e"," ","d","o","w","n">>,
   <<"b","l","a","c","k"," ","t","i","e"," ","w","h","i","t","e"," ","n","o",
     "i","s","e">>,
   <<"t","h","e"," ","b","u","d","d","h","a"," ","o","f"," ","s","u","b","u",
     "r","b","i","a">>,
   <<"o","u","t","s","i","d","e">>,
   <<"e","a","r","t","h","l","i","n","g">>,
   <<"h","o","u","r","s">>,
   <<"h","e","a","t","h","e","n">>,
   <<"r","e","a","l","i","t","y">>,
   <<"t","h","e"," ","n","e","x","t"," ","d","a","y">>,
   <<"b","l","a","c","k","s","t","a","r">>,
   <<"t","o","y">>}

S_live == <<"l","i","v","e">>
S_collection == <<"c","o","l","l","e","c","t","i","o","n">>
S_best_of == <<"b","e","s","t"," ","o","f">>
S_anthology == <<"a","n","t","h","o","l","o","g","y">>
S_greatest_hits == <<"g","r","e","a","t","e","s","t"," ","h","i","t","s">>
S_best == <<"b","e","s","t">>

\* Penalties that leave a live album unpenalised.
Penalties_NoLive(title) ==
    (IF Contains(S_collection, title) THEN 100 ELSE 0)
  + (IF Contains(S_best_of, title) THEN 100 ELSE 0)
  + (IF Contains(S_anthology, title) THEN 100 ELSE 0)
  + (IF Contains(S_greatest_hits, title) THEN 100 ELSE 0)
  + (IF S_best = title THEN 500 ELSE 0)

\* Lines 42-47: what the else branch takes off the score before the length.
Penalties(title) ==
    (IF Contains(S_live, title) THEN 200 ELSE 0)
  + (IF Contains(S_collection, title) THEN 100 ELSE 0)
  + (IF Contains(S_best_of, title) THEN 100 ELSE 0)
  + (IF Contains(S_anthology, title) THEN 100 ELSE 0)
  + (IF Contains(S_greatest_hits, title) THEN 100 ELSE 0)
  + (IF S_best = title THEN 500 ELSE 0)

\* rg_score(rg_id, data)
RgScore(data) ==
  LET title == Lower(data.title)
      is_canonical == \E canon \in CANONICAL_ALBUMS : Contains(canon, title)
  IN (IF is_canonical THEN 1000 - Len(title) ELSE 0 - Penalties(title) - Len(title))
     + (IF data.image_url # NoImage THEN 50 ELSE 0)

RECURSIVE InsertByScore_Unstable(_, _)
\* A sort that puts x before the items of the same score.
InsertByScore_Unstable(sorted, x) ==
  IF sorted = <<>> THEN <<x>>
  ELSE IF RgScore(Head(sorted)) > RgScore(x)
       THEN <<Head(sorted)>> \o InsertByScore_Unstable(Tail(sorted), x)
       ELSE <<x>> \o sorted

\* Where sorted() puts x among items already in descending order: behind
\* every item that scores at least as much (the sort is stable).
RECURSIVE InsertByScore(_, _)
InsertByScore(sorted, x) ==
  IF sorted = <<>> THEN <<x>>
  ELSE IF RgScore(Head(sorted)) >= RgScore(x)
       THEN <<Head(sorted)>> \o InsertByScore(Tail(sorted), x)
       ELSE <<x>> \o sorted

RECURSIVE SortByScore(_)
\* sorted(full_db.items(), key=..., reverse=True)
SortByScore(db) ==
  IF db = <<>> THEN <<>>
  ELSE InsertByScore(SortByScore(SubSeq(db, 1, Len(db) - 1)), db[Len(db)])

EmptyLookup == [recordings |-> <<>>, release_groups |-> <<>>, track_durations |-> <<>>]

\* bowie_lookup.json does not exist.
NoLookup == [exists |-> FALSE]

\* d[k] = v
Put(d, k, v) == [x \in (DOMAIN d) \cup {k} |-> IF x = k THEN v ELSE d[x]]

\* A claim test that lets every group take the recording.
Unclaimed_Always(rec_id, recordings) == TRUE

\* rec_id not in lookup["recordings"]
Unclaimed(rec_id, recordings) == rec_id \notin DOMAIN recordings

RECURSIVE AddTracks(_, _, _)
\* Lines 68-78: the loop over the tracks of one group.
AddTracks(lk, rg_id, tracks) ==
  IF tracks = <<>> THEN lk
  ELSE LET t == Head(tracks)
           lk1 == IF t.duration_ms # 0
                  THEN [lk EXCEPT !.track_durations = Put(@, t.id, t.duration_ms)]
                  ELSE lk
           lk2 == IF Unclaimed(t.id, lk1.recordings)
                  THEN [lk1 EXCEPT !.recordings = Put(@, t.id, rg_id)]
                  ELSE lk1
       IN IF t.id = 0 THEN AddTracks(lk, rg_id, Tail(tracks))
          ELSE AddTracks(lk2, rg_id, Tail(tracks))

\* Lines 61-78: the body of the loop over the sorted groups.
AddGroup(lk, data) ==
  LET entry == [rg |-> data.rg,
                val |-> <<data.title, data.image_url, data.track_count, data.type>>]
  IN AddTracks([lk EXCEPT !.release_groups = Append(@, entry)], data.rg, data.tracks)

\* Lines 15-16.
LkLoad ==
  /\ lpc = "load"
  /\ full_db' = LoadDb(dbFile.data)
  /\ lpc' = "sort"
  /\ UNCHANGED <<catalog, fetchVars, disk, pc, mem, sup, runHist, hist, mergeVars, sorted_rgs,
                 lpos, lookup, lookupFile, nmVars>>

\* Lines 54-58.
LkSort ==
  /\ lpc = "sort"
  /\ sorted_rgs' = SortByScore(full_db)
  /\ lpos' = 0
  /\ lpc' = "loop"
  /\ UNCHANGED <<catalog, fetchVars, disk, pc, mem, sup, runHist, hist, mergeVars, full_db,
                 lookup, lookupFile, nmVars>>

\* Lines 60-78, one iteration of the loop over the sorted groups.
LkGroup ==
  /\ lpc = "loop"
  /\ lpos < Len(sorted_rgs)
  /\ lookup' = AddGroup(lookup, sorted_rgs[lpos + 1])
  /\ lpos' = lpos + 1
  /\ UNCHANGED <<catalog, fetchVars, disk, pc, mem, sup, runHist, hist, mergeVars, lpc, full_db,
                 sorted_rgs, lookupFile, nmVars>>

\* The loop is over; lines 80-83: json.dump(lookup, f).
LkDone ==
  /\ lpc = "loop"
  /\ lpos = Len(sorted_rgs)
  /\ lookupFile' = lookup
  /\ lpc' = "done"
  /\ UNCHANGED <<catalog, fetchVars, disk, pc, mem, sup, runHist, hist, mergeVars, full_db,
                 sorted_rgs, lpos, lookup, nmVars>>

(***************************************************************************)
(* The name index builder: process_lookup.py process_metadata().           *)
(***************************************************************************)
\* A builder that keys the index by the title as it is written.
NormName_AsWritten(rec_name) == rec_name

\* norm_name = rec_name.lower()
NormName(rec_name) == Lower(rec_name)

\* x in l
InList(x, l) == \E k \in 1..Len(l) : l[k] = x

RECURSIVE AddNames(_, _, _)
\* Lines 15-28: the loop over the tracks of one group.
AddNames(nm, rg_id, tracks) ==
  IF tracks = <<>> THEN nm
  ELSE LET t == Head(tracks)
           norm_name == NormName(t.title)
           nm1 == IF norm_name \in DOMAIN nm THEN nm ELSE Put(nm, norm_name, <<>>)
           entry == <<t.id, rg_id>>
           nm2 == IF InList(entry, nm1[norm_name])
                  THEN nm1
                  ELSE Put(nm1, norm_name, Append(nm1[norm_name], entry))
       IN IF t.id = 0 \/ t.title = Null \/ t.title = <<>>
          THEN AddNames(nm, rg_id, Tail(tracks))
          ELSE AddNames(nm2, rg_id, Tail(tracks))

\* Lines 6-12: both files are loaded.
NmLoad ==
  /\ lpc = "done"
  /\ full_db' = LoadDb(dbFile.data)
  /\ lookup' = lookupFile
  /\ name_map' = <<>>
  /\ npos' = 0
  /\ lpc' = "nm_loop"
  /\ UNCHANGED <<catalog, fetchVars, disk, pc, mem, sup, runHist, hist, mergeVars,
                 sorted_rgs, lpos, lookupFile>>

\* Lines 14-28, one iteration of the loop over full_db.items().
NmGroup ==
  /\ lpc = "nm_loop"
  /\ npos < Len(full_db)
  /\ name_map' = AddNames(name_map, full_db[npos + 1].rg, full_db[npos + 1].tracks)
  /\ npos' = npos + 1
  /\ UNCHANGED <<catalog, fetchVars, disk, pc, mem, sup, runHist, hist, mergeVars, lpc,
                 full_db, sorted_rgs, lpos, lookup, lookupFile>>

\* Lines 30-33: lookup["name_map"] = name_map; json.dump(lookup, f).
NmDone ==
  /\ lpc = "nm_loop"
  /\ npos = Len(full_db)
  /\ lookup' = Put(lookup, "name_map", name_map)
  /\ lookupFile' = lookup'
  /\ lpc' = "nm_done"
  /\ UNCHANGED <<catalog, fetchVars, disk, pc, mem, sup, runHist, hist, mergeVars,
                 full_db, sorted_rgs, lpos, nmVars>>

(***************************************************************************)
(* The fetcher: fetch_bowie_data.py fetch_json().  One session.get per     *)
(* iteration; what comes of it is the environment's choice.                *)
(***************************************************************************)
MaxAttempts == 5

\* return None
Unavailable == "None"
\* resp.json()
Body == "body"

\* A loop that runs once more than range(5).
MoreAttempts_OneMore(n) == n <= MaxAttempts

\* for attempt in range(5)
MoreAttempts(n) == n < MaxAttempts

\* time.sleep(1.1) before every session.get
Pacing == 11

\* Lines 22-25: status 200, and resp.json() parses the body.
FetchGet200 ==
  /\ fpc = "try"
  /\ MoreAttempts(attempt)
  /\ outcomes' = Append(outcomes, "200")
  /\ slept' = slept + Pacing
  /\ fresult' = Body
  /\ fpc' = "returned"
  /\ UNCHANGED <<catalog, attempt, disk, pc, mem, sup, runHist, hist, mergeVars,
                 lookupVars>>

\* Lines 22-27: status 503.
FetchGet503 ==
  /\ fpc = "try"
  /\ MoreAttempts(attempt)
  /\ outcomes' = Append(outcomes, "503")
  /\ slept' = slept + Pacing + 150
  /\ attempt' = attempt + 1
  /\ UNCHANGED <<catalog, fpc, fresult, disk, pc, mem, sup, runHist, hist, mergeVars,
                 lookupVars>>

\* Lines 22-29: any other status.
FetchGetOther ==
  /\ fpc = "try"
  /\ MoreAttempts(attempt)
  /\ outcomes' = Append(outcomes, "other")
  /\ slept' = slept + Pacing + 50
  /\ attempt' = attempt + 1
  /\ UNCHANGED <<catalog, fpc, fresult, disk, pc, mem, sup, runHist, hist, mergeVars,
                 lookupVars>>

\* Lines 22-31: session.get raises (a timeout, a connection error), or
\* resp.json() raises on a 200 whose body is not JSON.
FetchGetRaises ==
  /\ fpc = "try"
  /\ MoreAttempts(attempt)
  /\ outcomes' = Append(outcomes, "raised")
  /\ slept' = slept + Pacing + 30 * (attempt + 1)
  /\ attempt' = attempt + 1
  /\ UNCHANGED <<catalog, fpc, fresult, disk, pc, mem, sup, runHist, hist, mergeVars,
                 lookupVars>>

\* Line 32: the loop is over.
FetchGiveUp ==
  /\ fpc = "try"
  /\ ~MoreAttempts(attempt)
  /\ fresult' = Unavailable
  /\ fpc' = "returned"
  /\ UNCHANGED <<catalog, attempt, outcomes, slept, disk, pc, mem, sup, runHist, hist,
                 mergeVars, lookupVars>>

(***************************************************************************)
(* The supervisor: supervisor_fetch.py main().                             *)
(***************************************************************************)
\* subprocess.Popen of the crawler; is_complete = False.
SupSpawn ==
  /\ supPc = "spawn"
  /\ runs < MaxRuns
  /\ supPc' = "wait"
  /\ is_complete' = FALSE
  /\ runs' = runs + 1
  /\ pc' = "load"
  /\ final_db' = <<>>
  /\ processed_rel_ids' = {}
  /\ all_releases' = <<>>
  /\ offset' = 0
  /\ i' = 0
  /\ processed_this_run' = 0
  /\ listOffsets' = <<>>
  /\ checkpoints' = 0
  /\ finalWrites' = 0
  /\ pageFailed' = FALSE
  /\ skipped' = {}
  /\ fetched' = {}
  /\ marker' = FALSE
  /\ startProcessed' = {}
  /\ UNCHANGED <<catalog, fetchVars, disk, hist, mergeVars, lookupVars>>

\* A supervisor that stops after any run.
AfterRun_AlwaysStop(complete) == "done"

\* Lines 40-45: break when the marker was seen, else sleep 30 s and loop.
AfterRun(complete) == IF complete THEN "done" ELSE "spawn"

\* The readline loop ends when the crawler is gone; process.wait(); stop when
\* the marker was among the lines, else sleep and start over.
SupReap ==
  /\ supPc = "wait"
  /\ pc \in {"exit", "crashed", "error"}
  /\ is_complete' = marker
  /\ supPc' = AfterRun(marker)
  /\ pc' = "none"
  /\ UNCHANGED <<catalog, fetchVars, disk, mem, runs, runHist, hist, mergeVars, lookupVars>>

(***************************************************************************)
(* The crawler: fetch_bowie_data.py get_all_recordings().                  *)
(***************************************************************************)
DbLoadable == ~dbFile.exists \/ JsonValid(dbFile.data, "{", "}")
ProgLoadable == ~progFile.exists \/ JsonValid(progFile.data, "[", "]")

\* Lines 35-45.
LoadState ==
  /\ pc = "load"
  /\ DbLoadable /\ ProgLoadable
  /\ final_db' = IF dbFile.exists THEN LoadDb(dbFile.data) ELSE <<>>
  /\ processed_rel_ids' = IF progFile.exists THEN LoadIds(progFile.data) ELSE {}
  /\ startProcessed' = processed_rel_ids'
  /\ preDb' = dbFile
  /\ newDb' = dbFile
  /\ pc' = "discover"
  /\ UNCHANGED <<catalog, fetchVars, disk, all_releases, offset, i, processed_this_run, sup,
                 listOffsets, checkpoints, finalWrites, pageFailed, skipped, fetched,
                 marker, faults, everPersisted, crashPc, mergeVars, lookupVars>>

\* json.load raises on a file that is not a JSON document; nothing catches it.
LoadError ==
  /\ pc = "load"
  /\ ~(DbLoadable /\ ProgLoadable)
  /\ pc' = "error"
  /\ UNCHANGED <<catalog, fetchVars, disk, mem, sup, runHist, hist, mergeVars, lookupVars>>

\* len(batch) < 100
LastPage(batch) == Len(batch) < PageSize

\* Lines 50-65, one iteration with fetch_json returning the page.
FetchPageOk ==
  /\ pc = "discover"
  /\ LET batch == Page(catalogSize, offset)
     IN /\ listOffsets' = Append(listOffsets, offset)
        /\ IF batch = <<>>
           THEN /\ pc' = "detail"
                /\ UNCHANGED <<all_releases, offset>>
           ELSE /\ all_releases' = all_releases \o batch
                /\ IF LastPage(batch)
                   THEN pc' = "detail" /\ offset' = offset
                   ELSE pc' = "discover" /\ offset' = offset + PageSize
  /\ UNCHANGED <<catalog, fetchVars, disk, final_db, processed_rel_ids, i, processed_this_run,
                 sup, checkpoints, finalWrites, pageFailed, skipped, fetched, marker,
                 startProcessed, hist, mergeVars, lookupVars>>

\* Lines 50-59, fetch_json returning None.
FetchPageFail ==
  /\ pc = "discover"
  /\ faults < MaxFaults
  /\ faults' = faults + 1
  /\ listOffsets' = Append(listOffsets, offset)
  /\ pageFailed' = TRUE
  /\ pc' = "detail"
  /\ UNCHANGED <<catalog, fetchVars, disk, mem, sup, checkpoints, finalWrites, skipped,
                 fetched, marker, startProcessed, everPersisted, preDb, newDb, crashPc,
                 mergeVars, lookupVars>>

\* The release the detail loop is at.
InLoop == pc = "detail" /\ i < Len(all_releases)
Rel == Release(all_releases[i + 1])

\* A crawler that takes every release as linked.
Linked_Always(rel) == TRUE

\* rg_id = rel.get("release-group", {}).get("id"); if not rg_id: continue
Linked(rel) == rel.rg.id # 0

\* Lines 77-78.
SkipProcessed ==
  /\ InLoop
  /\ Rel.id \in processed_rel_ids
  /\ i' = i + 1
  /\ UNCHANGED <<catalog, fetchVars, disk, pc, final_db, processed_rel_ids, all_releases,
                 offset, processed_this_run, sup, runHist, hist, mergeVars, lookupVars>>

\* Lines 80-81.
SkipNoRg ==
  /\ InLoop
  /\ Rel.id \notin processed_rel_ids
  /\ ~Linked(Rel)
  /\ i' = i + 1
  /\ UNCHANGED <<catalog, fetchVars, disk, pc, final_db, processed_rel_ids, all_releases,
                 offset, processed_this_run, sup, runHist, hist, mergeVars, lookupVars>>

\* A crawler that creates the group's record before it looks at the detail.
DetailFail_RecordFirst ==
  /\ InLoop
  /\ Rel.id \notin processed_rel_ids
  /\ Linked(Rel)
  /\ faults < MaxFaults
  /\ faults' = faults + 1
  /\ processed_this_run' = processed_this_run + 1
  /\ fetched' = fetched \cup {Rel.id}
  /\ skipped' = skipped \cup {Rel.id}
  /\ i' = i + 1
  /\ final_db' = IF Find(final_db, Rel.rg.id) = 0
                 THEN Append(final_db, NewRecord(Rel))
                 ELSE final_db
  /\ UNCHANGED <<catalog, fetchVars, disk, pc, processed_rel_ids, all_releases,
                 offset, sup, listOffsets, checkpoints, finalWrites, pageFailed, marker,
                 startProcessed, everPersisted, preDb, newDb, crashPc, mergeVars, lookupVars>>

\* Lines 83-92, fetch_json returning None.
DetailFail ==
  /\ InLoop
  /\ Rel.id \notin processed_rel_ids
  /\ Linked(Rel)
  /\ faults < MaxFaults
  /\ faults' = faults + 1
  /\ processed_this_run' = processed_this_run + 1
  /\ fetched' = fetched \cup {Rel.id}
  /\ skipped' = skipped \cup {Rel.id}
  /\ i' = i + 1
  /\ UNCHANGED <<catalog, fetchVars, disk, pc, final_db, processed_rel_ids, all_releases,
                 offset, sup, listOffsets, checkpoints, finalWrites, pageFailed, marker,
                 startProcessed, everPersisted, preDb, newDb, crashPc, mergeVars, lookupVars>>

\* A checkpoint condition that fires one release early.
CheckpointDue_OneEarly(n) == (n + 1) % CheckpointEvery = 0

\* processed_this_run % 10 == 0
CheckpointDue(n) == n % CheckpointEvery = 0

\* Lines 83-127, fetch_json returning the detail.
DetailOk ==
  /\ InLoop
  /\ Rel.id \notin processed_rel_ids
  /\ Linked(Rel)
  /\ processed_this_run' = processed_this_run + 1
  /\ fetched' = fetched \cup {Rel.id}
  /\ final_db' = Fold(final_db, Rel, Detail(Rel.id))
  /\ processed_rel_ids' = processed_rel_ids \cup {Rel.id}
  /\ IF CheckpointDue(processed_this_run')
     THEN pc' = "ckpt_open_tmp" /\ i' = i
     ELSE pc' = "detail" /\ i' = i + 1
  /\ UNCHANGED <<catalog, fetchVars, disk, all_releases, offset, sup, listOffsets, checkpoints,
                 finalWrites, pageFailed, skipped, marker, startProcessed, hist,
                 mergeVars, lookupVars>>

(***************************************************************************)
(* The periodic checkpoint, lines 127-132.                                 *)
(***************************************************************************)
\* open(OUTPUT_FILE + ".tmp", "w")
CkptOpenTmp ==
  /\ pc = "ckpt_open_tmp"
  /\ tmpFile' = FileOf(<<>>)
  /\ pc' = "ckpt_dump_tmp"
  /\ UNCHANGED <<catalog, fetchVars, dbFile, progFile, mem, sup, runHist, hist, mergeVars, lookupVars>>

\* json.dump(final_db, f, indent=2) and the close of the with block
CkptDumpTmp ==
  /\ pc = "ckpt_dump_tmp"
  /\ tmpFile' = FileOf(DumpDb(final_db))
  /\ pc' = "ckpt_replace"
  /\ UNCHANGED <<catalog, fetchVars, dbFile, progFile, mem, sup, runHist, hist, mergeVars, lookupVars>>

\* os.replace(OUTPUT_FILE + ".tmp", OUTPUT_FILE)
CkptReplace ==
  /\ pc = "ckpt_replace"
  /\ preDb' = dbFile
  /\ newDb' = tmpFile
  /\ dbFile' = tmpFile
  /\ tmpFile' = NoFile
  /\ pc' = "ckpt_open_prog"
  /\ UNCHANGED <<catalog, fetchVars, progFile, mem, sup, runHist, faults, everPersisted,
                 crashPc, mergeVars, lookupVars>>

\* open(PROGRESS_FILE, "w")
CkptOpenProg ==
  /\ pc = "ckpt_open_prog"
  /\ progFile' = FileOf(<<>>)
  /\ pc' = "ckpt_dump_prog"
  /\ UNCHANGED <<catalog, fetchVars, dbFile, tmpFile, mem, sup, runHist, hist, mergeVars, lookupVars>>

\* json.dump(list(processed_rel_ids), f), the close, and on to the next release
CkptDumpProg ==
  /\ pc = "ckpt_dump_prog"
  /\ progFile' = FileOf(DumpIds(processed_rel_ids))
  /\ everPersisted' = everPersisted \cup processed_rel_ids
  /\ checkpoints' = checkpoints + 1
  /\ i' = i + 1
  /\ pc' = "detail"
  /\ UNCHANGED <<catalog, fetchVars, dbFile, tmpFile, final_db, processed_rel_ids,
                 all_releases, offset, processed_this_run, sup, listOffsets,
                 finalWrites, pageFailed, skipped, fetched, marker, startProcessed,
                 faults, preDb, newDb, crashPc, mergeVars, lookupVars>>

(***************************************************************************)
(* The final write, lines 134-139.                                         *)
(***************************************************************************)
\* The loop is over; open(OUTPUT_FILE, "w")
FinalOpenDb ==
  /\ pc = "detail"
  /\ i = Len(all_releases)
  /\ preDb' = dbFile
  /\ newDb' = FileOf(DumpDb(final_db))
  /\ dbFile' = FileOf(<<>>)
  /\ pc' = "final_dump_db"
  /\ UNCHANGED <<catalog, fetchVars, tmpFile, progFile, mem, sup, runHist, faults,
                 everPersisted, crashPc, mergeVars, lookupVars>>

\* json.dump(final_db, f, indent=2) and the close
FinalDumpDb ==
  /\ pc = "final_dump_db"
  /\ dbFile' = FileOf(DumpDb(final_db))
  /\ pc' = "final_open_prog"
  /\ UNCHANGED <<catalog, fetchVars, tmpFile, progFile, mem, sup, runHist, hist, mergeVars, lookupVars>>

\* open(PROGRESS_FILE, "w")
FinalOpenProg ==
  /\ pc = "final_open_prog"
  /\ progFile' = FileOf(<<>>)
  /\ pc' = "final_dump_prog"
  /\ UNCHANGED <<catalog, fetchVars, dbFile, tmpFile, mem, sup, runHist, hist, mergeVars, lookupVars>>

\* json.dump(list(processed_rel_ids), f) and the close
FinalDumpProg ==
  /\ pc = "final_dump_prog"
  /\ progFile' = FileOf(DumpIds(processed_rel_ids))
  /\ everPersisted' = everPersisted \cup processed_rel_ids
  /\ finalWrites' = finalWrites + 1
  /\ pc' = "print"
  /\ UNCHANGED <<catalog, fetchVars, dbFile, tmpFile, mem, sup, listOffsets, checkpoints,
                 pageFailed, skipped, fetched, marker, startProcessed, faults, preDb,
                 newDb, crashPc, mergeVars, lookupVars>>

\* print("Exhaustive fetch complete."), and the process ends
PrintMarker ==
  /\ pc = "print"
  /\ marker' = TRUE
  /\ pc' = "exit"
  /\ UNCHANGED <<catalog, fetchVars, disk, mem, sup, listOffsets, checkpoints, finalWrites,
                 pageFailed, skipped, fetched, startProcessed, hist, mergeVars, lookupVars>>

(***************************************************************************)
(* The crawler process dies (a kill, a power cut, an uncaught I/O error).  *)
(* A file it has open for writing is left with a proper prefix of what was *)
(* being written.                                                          *)
(***************************************************************************)
Running == pc \notin {"none", "exit", "crashed", "error"}

ProperPrefixes(tokens) == {SubSeq(tokens, 1, n) : n \in 0..(Len(tokens) - 1)}

\* The crawler process dies where it is: a file being dumped is left with a
\* proper prefix of its content.
Killed ==
  /\ Running
  /\ crashPc' = pc
  /\ pc' = "crashed"
  /\ tmpFile' \in IF pc = "ckpt_dump_tmp"
                  THEN {FileOf(t) : t \in ProperPrefixes(DumpDb(final_db))}
                  ELSE {tmpFile}
  /\ dbFile' \in IF pc = "final_dump_db"
                 THEN {FileOf(t) : t \in ProperPrefixes(DumpDb(final_db))}
                 ELSE {dbFile}
  /\ progFile' \in IF pc \in {"ckpt_dump_prog", "final_dump_prog"}
                   THEN {FileOf(t) : t \in ProperPrefixes(DumpIds(processed_rel_ids))}
                   ELSE {progFile}
  /\ UNCHANGED <<catalog, fetchVars, mem, runHist, faults, everPersisted, preDb, newDb,
                 mergeVars, lookupVars>>

Crash == Killed /\ UNCHANGED sup

\* supervisor_fetch.py lines 35-37: KeyboardInterrupt in the readline loop;
\* process.terminate() and sys.exit(0).
SupInterrupt ==
  /\ supPc = "wait"
  /\ Killed
  /\ supPc' = "interrupted"
  /\ UNCHANGED <<is_complete, runs>>

(***************************************************************************)
(* Spec: the supervised crawler against a catalog of at most MaxCatalog    *)
(* releases, with failing fetches and crashes.                             *)
(***************************************************************************)
\* No crawler has run and nothing but the database file may exist.
InitOthers ==
  /\ tmpFile = NoFile /\ progFile = NoFile
  /\ pc = "none"
  /\ final_db = <<>>
  /\ processed_rel_ids = {}
  /\ all_releases = <<>>
  /\ offset = 0
  /\ i = 0
  /\ processed_this_run = 0
  /\ supPc = "spawn"
  /\ is_complete = FALSE
  /\ runs = 0
  /\ faults = 0
  /\ listOffsets = <<>>
  /\ checkpoints = 0
  /\ finalWrites = 0
  /\ pageFailed = FALSE
  /\ skipped = {}
  /\ fetched = {}
  /\ marker = FALSE
  /\ startProcessed = {}
  /\ everPersisted = {}
  /\ preDb = NoFile /\ newDb = NoFile
  /\ crashPc = "none"
  /\ log = <<>>
  /\ prev_db = <<>>
  /\ full_db = <<>>
  /\ sorted_rgs = <<>>
  /\ lpos = 0
  /\ lookup = EmptyLookup
  /\ lookupFile = NoLookup
  /\ name_map = <<>>
  /\ npos = 0

\* No call of fetch_json is under way.
InitNoFetch ==
  /\ fpc = "none"
  /\ attempt = 0
  /\ fresult = Unavailable
  /\ outcomes = <<>>
  /\ slept = 0

InitCrawler ==
  /\ dbFile = NoFile
  /\ lpc = "none"
  /\ InitOthers
  /\ InitNoFetch

Init ==
  /\ catalogSize \in 0..MaxCatalog
  /\ catalogGaps \in BOOLEAN
  /\ InitCrawler

Next ==
  \/ SupSpawn \/ SupReap
  \/ LoadState \/ LoadError
  \/ FetchPageOk \/ FetchPageFail
  \/ SkipProcessed \/ SkipNoRg \/ DetailFail \/ DetailOk
  \/ CkptOpenTmp \/ CkptDumpTmp \/ CkptReplace \/ CkptOpenProg \/ CkptDumpProg
  \/ FinalOpenDb \/ FinalDumpDb \/ FinalOpenProg \/ FinalDumpProg \/ PrintMarker
  \/ Crash \/ SupInterrupt

Spec == Init /\ [][Next]_vars

(***************************************************************************)
(* SpecSup: the supervisor and the crawler against a catalog of at most    *)
(* MaxSupCatalog releases, too few for a periodic checkpoint to come due.  *)
(* The supervisor's own steps are not put off for ever: process.wait()     *)
(* returns once the crawler is gone and time.sleep(30) ends.               *)
(***************************************************************************)
InitSup ==
  /\ catalogSize \in 0..MaxSupCatalog
  /\ catalogGaps \in BOOLEAN
  /\ InitCrawler

NextSup ==
  \/ SupSpawn \/ SupReap \/ SupInterrupt
  \/ LoadState \/ LoadError
  \/ FetchPageOk \/ FetchPageFail
  \/ SkipProcessed \/ SkipNoRg \/ DetailFail \/ DetailOk
  \/ FinalOpenDb \/ FinalDumpDb \/ FinalOpenProg \/ FinalDumpProg \/ PrintMarker
  \/ Crash

SpecSup == InitSup /\ [][NextSup]_vars /\ WF_vars(SupSpawn) /\ WF_vars(SupReap)

(***************************************************************************)
(* SpecE2E: one crawl from empty files against a catalog of at most MaxE2E *)
(* releases, every fetch succeeding and the process never dying.           *)
(***************************************************************************)
InitE2E ==
  /\ catalogSize \in 0..MaxE2E
  /\ catalogGaps \in BOOLEAN
  /\ InitCrawler

NextE2E ==
  \/ SupSpawn \/ SupReap
  \/ LoadState
  \/ FetchPageOk
  \/ SkipNoRg \/ DetailOk
  \/ CkptOpenTmp \/ CkptDumpTmp \/ CkptReplace \/ CkptOpenProg \/ CkptDumpProg
  \/ FinalOpenDb \/ FinalDumpDb \/ FinalOpenProg \/ FinalDumpProg \/ PrintMarker

SpecE2E == InitE2E /\ [][NextE2E]_vars

(***************************************************************************)
(* Claims about the crawler.                                               *)
(***************************************************************************)
\* What a reader of the progress file gets: its ids, or nothing when the file
\* is missing or is not a JSON document.
PersistedIds ==
  IF progFile.exists /\ JsonValid(progFile.data, "[", "]")
  THEN LoadIds(progFile.data) ELSE {}

\* C1: checkpoint atomicity.  Whenever the crawler has died, the database file
\* under its canonical name holds either the complete content it had before
\* the latest write of it began or the complete content that write was given.
C1_CheckpointAtomicity ==
  pc = "crashed" => (dbFile = preDb \/ dbFile = newDb)

\* C2: the completion marker is printed only in a run whose discovery did not
\* end on a failed list request and in which every discovered release with a
\* release-group id is in ProcessedSet (none was skipped for a failed fetch).
C2_MarkerOnlyWhenExhaustive ==
  marker =>
    /\ ~pageFailed
    /\ skipped = {}
    /\ \A k \in 1..Len(all_releases) :
         Release(all_releases[k]).rg.id # 0 => all_releases[k] \in processed_rel_ids

\* C3: between writes, at most 10 releases are merged in memory and not yet in
\* the persisted ProcessedSet.
C3_LossBoundedByOneBatch ==
  pc \in {"detail", "ckpt_open_tmp"} =>
    Cardinality(processed_rel_ids \ PersistedIds) <= CheckpointEvery

\* C5: ProcessedSet is monotone across runs.  An id that a completed write of
\* the progress file contained is in the file after any crash and in the set
\* the next run loads, and no run fetches the detail of a release that was in
\* the set it loaded.
C5_ProcessedSetMonotone ==
  /\ pc = "crashed" => everPersisted \subseteq PersistedIds
  /\ (pc = "discover" /\ listOffsets = <<>>) => everPersisted \subseteq startProcessed
  /\ fetched \cap startProcessed = {}

\* C10: end to end, from empty files with every fetch succeeding.  The list
\* requests are at offsets 0, 100, 200, ..., each but the last answered by a
\* full page, and discovery is over at the first page of fewer than 100
\* releases; when the run ends every release with a release-group id is in
\* ProcessedSet, and with P of them the run made P div 10 periodic checkpoints
\* and one final write.
C10_EndToEnd ==
  LET n == Len(listOffsets)
      linked == {k \in 1..catalogSize : Release(k).rg.id # 0}
  IN /\ \A k \in 1..n :
          /\ listOffsets[k] = (k - 1) * 100
          /\ k < n => Len(Page(catalogSize, listOffsets[k])) >= 100
     /\ pc \notin {"none", "load", "discover"} =>
          /\ n >= 1
          /\ Len(Page(catalogSize, listOffsets[n])) < 100
          /\ all_releases = [k \in 1..catalogSize |-> k]
     /\ pc = "exit" =>
          /\ processed_rel_ids = linked
          /\ checkpoints = Cardinality(linked) \div 10
          /\ finalWrites = 1

\* The scenario of 150 releases in pages of 100 and 50: 2 list requests, 15
\* checkpoints, 1 final write.
C10_Witness ==
  /\ pc = "exit"
  /\ catalogSize = 150
  /\ Cardinality(processed_rel_ids) = 150
  /\ listOffsets = <<0, 100>>
  /\ checkpoints = 15
  /\ finalWrites = 1

(***************************************************************************)
(* SpecMerge: the merge alone, folding up to MaxMerges (release, detail)   *)
(* pairs into a database that starts empty.                                *)
(***************************************************************************)
MergeReleases == {Release(k) : k \in {1, 3, 4, 6, 9}}
MergeDetails ==
  {[media |-> m] : m \in {MediaA, MediaB, MediaC, MediaD, Media8, Media12}}

InitMerge ==
  /\ catalogSize = 0
  /\ catalogGaps = FALSE
  /\ InitCrawler

\* Lines 94-123 for one release and its detail.
Merge(rel, details) ==
  /\ Len(log) < MaxMerges
  /\ prev_db' = final_db
  /\ final_db' = Fold(final_db, rel, details)
  /\ log' = Append(log, [rel |-> rel, details |-> details])
  /\ UNCHANGED <<catalog, fetchVars, disk, pc, processed_rel_ids, all_releases, offset, i,
                 processed_this_run, sup, runHist, hist, lookupVars>>

NextMerge == \E rel \in MergeReleases, details \in MergeDetails : Merge(rel, details)

SpecMerge == InitMerge /\ [][NextMerge]_vars

\* The tracks folded into a release group so far, in processing order.
RECURSIVE FoldedTracks(_, _)
FoldedTracks(l, rg_id) ==
  IF l = <<>> THEN <<>>
  ELSE (IF Head(l).rel.rg.id = rg_id THEN AllTracks(Head(l).details.media) ELSE <<>>)
       \o FoldedTracks(Tail(l), rg_id)

\* The number of tracks on a release: those of its media added up.
RECURSIVE CountTracks(_)
CountTracks(media) ==
  IF media = <<>> THEN 0 ELSE Len(Head(media)) + CountTracks(Tail(media))

\* C6: merge idempotence.  When the last two folds were of the same release
\* and detail, the second left the database (track lists, image URLs and
\* track counts) as the first had made it.
C6_MergeIdempotent ==
  (Len(log) >= 2 /\ log[Len(log)] = log[Len(log) - 1]) => final_db = prev_db

\* A release with cover art and a repeated recording, folded twice in a row.
C6_Witness ==
  /\ Len(log) >= 2
  /\ log[Len(log)] = log[Len(log) - 1]
  /\ log[Len(log)].rel.front
  /\ log[Len(log)].details.media = MediaB
  /\ \E k \in 1..Len(final_db) :
       final_db[k].image_url # NoImage /\ final_db[k].tracks # <<>>

\* C7: dedup correctness.  Every group's track list holds a recording id at
\* most once, and the entry of an id carries the title (the track's, else the
\* recording's) and the duration (the track's length, else the recording's,
\* else 0) of the first track with that recording folded into the group.
C7_DedupFirstWins ==
  \A k \in 1..Len(final_db) :
    LET r == final_db[k]
        ts == FoldedTracks(log, r.rg)
    IN /\ \A a, b \in 1..Len(r.tracks) :
            a # b => r.tracks[a].id # r.tracks[b].id
       /\ \A a \in 1..Len(r.tracks) :
            \E j \in 1..Len(ts) :
              /\ ts[j].rec = r.tracks[a].id
              /\ \A j2 \in 1..(j - 1) : ts[j2].rec # r.tracks[a].id
              /\ r.tracks[a].title = IF ts[j].hasTitle THEN ts[j].title ELSE ts[j].rtitle
              /\ r.tracks[a].duration_ms =
                   IF ts[j].length > 0 THEN ts[j].length ELSE ts[j].rlength

\* Two releases of one group share recording 1 with different titles and
\* lengths, and the group's entry is the first one's.
C7_Witness ==
  /\ Len(log) = 2
  /\ log[1].rel.rg.id = log[2].rel.rg.id
  /\ log[1].rel.id # log[2].rel.id
  /\ log[1].details.media = MediaB
  /\ log[2].details.media = MediaA
  /\ final_db[1].tracks[1] = [id |-> 1, title |-> T_a, duration_ms |-> 0]
  /\ Len(final_db[1].tracks) = 2

\* C8: track count policy.  A group's track_count is the largest number of
\* tracks on any one release folded into it, whatever the order of the folds.
C8_TrackCountIsMax ==
  \A k \in 1..Len(final_db) :
    LET mine == {j \in 1..Len(log) : log[j].rel.rg.id = final_db[k].rg}
    IN /\ \A j \in mine : final_db[k].track_count >= CountTracks(log[j].details.media)
       /\ \E j \in mine : final_db[k].track_count = CountTracks(log[j].details.media)

\* Tracklists of 12 and then 8 tracks in one group: the count stays 12.
C8_Witness ==
  /\ Len(log) = 2
  /\ log[1].rel.rg.id = log[2].rel.rg.id
  /\ log[1].details.media = Media12
  /\ log[2].details.media = Media8
  /\ final_db[1].track_count = 12

(***************************************************************************)
(* SpecLookup: build_lookup() run on a database file of at most MaxGroups  *)
(* release groups.                                                         *)
(***************************************************************************)
LookupTitles == {T_Low, T_LiveInBerlin, T_GreatestHits}
LookupTrackLists ==
  {<<>>,
   <<[id |-> 1, title |-> T_A, duration_ms |-> 5]>>,
   <<[id |-> 1, title |-> T_a, duration_ms |-> 7],
     [id |-> 2, title |-> T_B, duration_ms |-> 0]>>}
GroupData ==
  [title : LookupTitles, image_url : {NoImage, ImageUrl(1)}, tracks : LookupTrackLists]

\* The ids of a database of n groups: distinct, in any order.
IdOrders(n) ==
  {f \in [1..n -> 1..MaxGroups] : \A a, b \in 1..n : a # b => f[a] # f[b]}

\* The database with the given ids and data, in this order.
LookupDb(ids, g) ==
  [k \in 1..Len(ids) |-> [rg          |-> ids[k],
                          title       |-> g[k].title,
                          type        |-> "Album",
                          track_count |-> Len(g[k].tracks),
                          image_url   |-> g[k].image_url,
                          tracks      |-> g[k].tracks]]

InitLookup ==
  /\ catalogSize = 0
  /\ catalogGaps = FALSE
  /\ \E n \in 0..MaxGroups :
       \E ids \in IdOrders(n), g \in [1..n -> GroupData] :
         dbFile = FileOf(DumpDb(LookupDb(ids, g)))
  /\ lpc = "load"
  /\ InitOthers
  /\ InitNoFetch

NextLookup == LkLoad \/ LkSort \/ LkGroup \/ LkDone \/ NmLoad \/ NmGroup \/ NmDone

SpecLookup == InitLookup /\ [][NextLookup]_vars

\* Whether two groups both have an image or both have none.
SameImagePresence(a, b) == (a.image_url = NoImage) <=> (b.image_url = NoImage)

\* Group a is ranked strictly above group b: it scores more and, once the
\* groups are sorted, it comes first.
RankedAbove(a, b) ==
  /\ RgScore(a) > RgScore(b)
  /\ lpc \in {"loop", "done"} =>
       \A p, q \in 1..Len(sorted_rgs) :
         (sorted_rgs[p] = a /\ sorted_rgs[q] = b) => p < q

\* The groups of the database with the given title.
Titled(t) == {full_db[k] : k \in {j \in 1..Len(full_db) : full_db[j].title = t}}

\* C4 as claimed: with the same image presence, "Low" ranks strictly above
\* "Live in Berlin (Live)", which ranks strictly above "Greatest Hits".
C4_RankingAsClaimed ==
  /\ \A a \in Titled(T_Low), b \in Titled(T_LiveInBerlin) :
       (a.rg # b.rg /\ SameImagePresence(a, b)) => RankedAbove(a, b)
  /\ \A a \in Titled(T_LiveInBerlin), b \in Titled(T_GreatestHits) :
       (a.rg # b.rg /\ SameImagePresence(a, b)) => RankedAbove(a, b)

\* C4 amended: with the same image presence, "Low" ranks strictly above
\* "Greatest Hits", which ranks strictly above "Live in Berlin (Live)".
C4_Ranking ==
  /\ \A a \in Titled(T_Low), b \in Titled(T_GreatestHits) :
       (a.rg # b.rg /\ SameImagePresence(a, b)) => RankedAbove(a, b)
  /\ \A a \in Titled(T_GreatestHits), b \in Titled(T_LiveInBerlin) :
       (a.rg # b.rg /\ SameImagePresence(a, b)) => RankedAbove(a, b)
  /\ \A a \in Titled(T_Low), b \in Titled(T_LiveInBerlin) :
       (a.rg # b.rg /\ SameImagePresence(a, b)) => RankedAbove(a, b)

\* "Live in Berlin (Live)" precedes "Greatest Hits" in the database, both
\* without image, and the sort has put "Greatest Hits" first.
C4_Witness ==
  /\ lpc = "done"
  /\ Len(full_db) = 2
  /\ full_db[1].title = T_LiveInBerlin /\ full_db[2].title = T_GreatestHits
  /\ full_db[1].image_url = NoImage /\ full_db[2].image_url = NoImage
  /\ lookup.release_groups[1].rg = full_db[2].rg
  /\ RgScore(full_db[1]) = 0 - 221
  /\ RgScore(full_db[2]) = 0 - 113

\* The groups of the database whose track list has the recording.
GroupsWith(rec_id) ==
  {k \in 1..Len(full_db) : rec_id \in TrackIds(full_db[k].tracks)}

\* C9: first-claim resolution.  A recording that is in the track lists of two
\* or more groups, all of different scores, is mapped by recordings to the
\* group of the highest score among them.
C9_FirstClaim ==
  lpc = "done" =>
    \A rec_id \in UNION {TrackIds(full_db[k].tracks) : k \in 1..Len(full_db)} :
      LET with == GroupsWith(rec_id)
      IN (/\ Cardinality(with) >= 2
          /\ \A a, b \in with : a # b => RgScore(full_db[a]) # RgScore(full_db[b]))
         => \E k \in with :
              /\ \A j \in with : RgScore(full_db[k]) >= RgScore(full_db[j])
              /\ lookup.recordings[rec_id] = full_db[k].rg

\* Recording 1 is in both groups and the second group of the database scores
\* more: the recording goes to the second.
C9_Witness ==
  /\ lpc = "done"
  /\ Len(full_db) = 2
  /\ GroupsWith(1) = {1, 2}
  /\ RgScore(full_db[2]) > RgScore(full_db[1])
  /\ lookup.recordings[1] = full_db[2].rg

(***************************************************************************)
(* SpecFetch: one call of fetch_json().  Every session.get ends (it has a  *)
(* timeout) and every sleep ends, so the call keeps taking steps.          *)
(***************************************************************************)
InitFetch ==
  /\ catalogSize = 0
  /\ catalogGaps = FALSE
  /\ dbFile = NoFile
  /\ lpc = "none"
  /\ InitOthers
  /\ fpc = "try"
  /\ attempt = 0
  /\ fresult = Unavailable
  /\ outcomes = <<>>
  /\ slept = 0

NextFetch ==
  FetchGet200 \/ FetchGet503 \/ FetchGetOther \/ FetchGetRaises \/ FetchGiveUp

SpecFetch == InitFetch /\ [][NextFetch]_vars /\ WF_vars(NextFetch)

\* The call made at most 5 attempts and none after a 200; a 200 ends the call
\* at once with the body; a call that ended without a 200 made 5 attempts,
\* all failed, and returned None; the call does nothing but try and return.
FetchSafe ==
  /\ Len(outcomes) <= 5
  /\ \A k \in 1..(Len(outcomes) - 1) : outcomes[k] # "200"
  /\ fpc \in {"try", "returned"}
  /\ (\E k \in 1..Len(outcomes) : outcomes[k] = "200") =>
       (fpc = "returned" /\ fresult = Body)
  /\ (fpc = "returned" /\ \A k \in 1..Len(outcomes) : outcomes[k] # "200") =>
       (fresult = Unavailable /\ Len(outcomes) = 5)

\* C11: fetcher bounded retry.  Whatever the outcomes of the attempts, the
\* call is always within FetchSafe (at most 5 attempts, the body on the first
\* 200, None exactly after 5 failures, no other way out) and it returns.
C11_BoundedRetry == []FetchSafe /\ <>(fpc = "returned")

\* Four failures of every kind and then a 200: the body, on the fifth attempt.
C11_Witness ==
  /\ fpc = "returned"
  /\ outcomes = <<"503", "other", "raised", "503", "200">>
  /\ fresult = Body

(***************************************************************************)
(* The supervisor's restart protocol, under SpecSup.                       *)
(***************************************************************************)
\* The supervisor waits on run r, which has ended without the marker.
RunEndedUnmarked(r) ==
  /\ supPc = "wait"
  /\ runs = r
  /\ pc \in {"exit", "crashed", "error"}
  /\ ~marker

\* C12: supervisor restart protocol.  After every run that ended without the
\* completion marker the supervisor starts the next run (as long as the
\* model lets it start one); a run is only ever started first or after a run
\* without the marker; after a run that printed the marker the supervisor
\* stops, and once stopped it starts nothing.
C12_RestartProtocol ==
  /\ \A r \in 1..(MaxRuns - 1) :
       RunEndedUnmarked(r) ~> (runs = r + 1 /\ supPc = "wait" /\ pc = "load")
  /\ (supPc = "wait" /\ marker) ~> (supPc = "done")
  /\ [][runs' # runs => (runs' = runs + 1 /\ (runs = 0 \/ ~is_complete))]_vars
  /\ [][supPc = "done" => (supPc' = "done" /\ runs' = runs /\ pc' = "none")]_vars

\* A first run died, the supervisor started a second one, which printed the
\* marker, and the supervisor stopped.
C12_Witness ==
  /\ supPc = "done"
  /\ is_complete
  /\ runs = 2
  /\ crashPc # "none"

(***************************************************************************)
(* The detail loop's skips, under Spec.                                    *)
(***************************************************************************)
\* The step is a detail fetch that came back unavailable: the set of releases
\* skipped for that reason in this run gains one.
DetailFailed == skipped \subseteq skipped' /\ skipped' # skipped

\* C13: a failed detail fetch is a no-op on state.  The step that takes the
\* unavailable detail leaves the in-memory database and the processed set as
\* they were, moves on to the next discovered release, and the run goes on;
\* the release it skipped is not in the processed set.
C13_FailedDetailNoOp ==
  [][DetailFailed =>
       /\ final_db' = final_db
       /\ processed_rel_ids' = processed_rel_ids
       /\ i' = i + 1
       /\ pc' = "detail"
       /\ skipped' \cap processed_rel_ids' = {}]_vars

\* A detail fetch failed when the database already held a group, and the crawl
\* went on to the end of the list and merged later releases.
C13_Witness ==
  /\ skipped # {}
  /\ final_db # <<>>
  /\ pc = "detail"
  /\ i = Len(all_releases)
  /\ \E id \in processed_rel_ids : \A sk \in skipped : id > sk

\* The discovered releases that carry no release-group id.
Unlinked == {k \in 1..catalogSize : Release(k).rg.id = 0}

\* The step passes over a release without a release-group id.
PassesUnlinked == InLoop /\ all_releases[i + 1] \in Unlinked /\ i' = i + 1

\* C14: a discovered release without a release-group id is never
\* detail-fetched, never in the processed set (in memory or persisted) and
\* never a key of the database, in every run; the step over it leaves the
\* database and the processed set as they were.
C14_UnlinkedNeverProcessed ==
  /\ [](/\ Unlinked \cap fetched = {}
        /\ Unlinked \cap processed_rel_ids = {}
        /\ Unlinked \cap everPersisted = {}
        /\ Find(final_db, 0) = 0)
  /\ [][PassesUnlinked =>
          /\ final_db' = final_db
          /\ processed_rel_ids' = processed_rel_ids
          /\ fetched' = fetched]_vars

\* A second run, resumed from a checkpoint, has passed the unlinked release 2
\* again and merged a release after it.
C14_Witness ==
  /\ runs = 2
  /\ 2 \in Unlinked
  /\ pc = "detail"
  /\ i >= 3
  /\ startProcessed # {}
  /\ processed_rel_ids # startProcessed

(***************************************************************************)
(* The lookup index against other orderings of the groups, under           *)
(* SpecLookup.                                                             *)
(***************************************************************************)
\* The orderings of the groups of a database.
Orderings(db) ==
  {[k \in 1..Len(db) |-> db[p[k]]] :
     p \in {q \in [1..Len(db) -> 1..Len(db)] :
              \A a, b \in 1..Len(db) : a # b => q[a] # q[b]}}

RECURSIVE BuildOver(_)
\* The index the loop of build_lookup builds when it takes the groups in the
\* given order.
BuildOver(order) ==
  IF order = <<>> THEN EmptyLookup
  ELSE AddGroup(BuildOver(SubSeq(order, 1, Len(order) - 1)), order[Len(order)])

\* The recording ids with a non-zero duration in some group.
TimedRecordings(db) ==
  UNION {{db[k].tracks[j].id :
            j \in {n \in 1..Len(db[k].tracks) :
                     db[k].tracks[n].id # 0 /\ db[k].tracks[n].duration_ms # 0}} :
         k \in 1..Len(db)}

\* C15: track_durations is independent of ranking.  Once the index is built,
\* the keys of track_durations are the recording ids with a non-zero duration
\* in some group, and the whole map, keys and values, is the one the builder
\* would have produced taking the groups in any other order.
C15_DurationsIndependentOfRanking ==
  lpc = "done" =>
    /\ DOMAIN lookup.track_durations = TimedRecordings(full_db)
    /\ \A order \in Orderings(full_db) :
         BuildOver(order).track_durations = lookup.track_durations

(***************************************************************************)
(* The image of a group, under SpecMerge.                                  *)
(***************************************************************************)
\* The folds of releases of the group that expose front cover art.
FrontFolds(rg_id) ==
  {j \in 1..Len(log) : log[j].rel.rg.id = rg_id /\ log[j].rel.front}

\* C16: image first-wins.  A group's image URL is null while no release
\* folded into it exposes front cover art, and else the cover-art URL of the
\* first such release in processing order; a merge never changes an image
\* URL that is set.
C16_ImageFirstWins ==
  /\ [](\A k \in 1..Len(final_db) :
          LET fronts == FrontFolds(final_db[k].rg)
          IN IF fronts = {}
             THEN final_db[k].image_url = NoImage
             ELSE \E j \in fronts :
                    /\ \A j2 \in fronts : j <= j2
                    /\ final_db[k].image_url = ImageUrl(log[j].rel.id))
  /\ [][\A k \in 1..Len(final_db) :
          final_db[k].image_url # NoImage =>
            final_db'[k].image_url = final_db[k].image_url]_vars

\* A release without cover art, then two with cover art, all of one group: the
\* image is that of the second fold.
C16_Witness ==
  /\ Len(log) = 3
  /\ log[1].rel.id = 1
  /\ log[2].rel.id = 9
  /\ log[3].rel.id = 3
  /\ final_db[1].image_url = ImageUrl(9)

(***************************************************************************)
(* The name index, under SpecLookup.                                       *)
(***************************************************************************)
\* The (group, track) positions of the raw database.
TrackPositions(db) ==
  {<<k, j>> : k \in 1..Len(db), j \in 1..2} \cap
  {p \in (1..Len(db)) \X (1..2) : p[2] <= Len(db[p[1]].tracks)}

\* The pairs (recording id, release-group id) of the tracks whose title,
\* lower-cased, is t.
NamePairs(db, t) ==
  {<<db[p[1]].tracks[p[2]].id, db[p[1]].rg>> :
     p \in {q \in TrackPositions(db) : Lower(db[q[1]].tracks[q[2]].title) = t}}

\* The step leaves the three maps of the index file as they are.
LookupMapsKept ==
  /\ lookupFile'.release_groups = lookupFile.release_groups
  /\ lookupFile'.recordings = lookupFile.recordings
  /\ lookupFile'.track_durations = lookupFile.track_durations

\* C17: name index.  When process_metadata has written the index, the keys of
\* name_map are the lower-cased track titles of the raw database, and the
\* list of a title holds, each exactly once, the pairs (recording id,
\* release-group id) of the tracks with that title, one pair per group for a
\* recording that several groups have; and from the load to the write the
\* maps release_groups, recordings and track_durations of the index file stay
\* as build_lookup wrote them.
C17_NameIndex ==
  /\ [](lpc = "nm_done" =>
          LET nm == lookupFile.name_map
          IN /\ DOMAIN nm =
                  {Lower(full_db[p[1]].tracks[p[2]].title) : p \in TrackPositions(full_db)}
             /\ \A t \in DOMAIN nm :
                  /\ \A a, b \in 1..Len(nm[t]) : a # b => nm[t][a] # nm[t][b]
                  /\ {nm[t][a] : a \in 1..Len(nm[t])} = NamePairs(full_db, t))
  /\ [][(lpc = "done" \/ lpc = "nm_loop") => LookupMapsKept]_vars

\* Recording 1 is titled "A" in one group and "a" in the other: the index has
\* the one key "a" with a pair for each group.
C17_Witness ==
  /\ lpc = "nm_done"
  /\ Len(full_db) = 2
  /\ full_db[1].tracks # <<>> /\ full_db[1].tracks[1].title = T_A
  /\ full_db[2].tracks # <<>> /\ full_db[2].tracks[1].title = T_a
  /\ lookupFile.name_map[T_a] = << <<1, full_db[1].rg>>, <<1, full_db[2].rg>> >>
  /\ lookupFile.recordings = lookup.recordings

(***************************************************************************)
(* The order of release_groups, under SpecLookup.                          *)
(***************************************************************************)
\* C18: the release_groups map that build_lookup writes holds every
\* release-group id of the database exactly once, in non-increasing order of
\* canonical score, groups of equal score in the order of the database.
C18_ReleaseGroupsOrder ==
  lookupFile # NoLookup =>
    LET rgs == lookupFile.release_groups
        at(a) == Find(full_db, rgs[a].rg)
    IN /\ Len(rgs) = Len(full_db)
       /\ \A k \in 1..Len(full_db) : \E a \in 1..Len(rgs) : rgs[a].rg = full_db[k].rg
       /\ \A a, b \in 1..Len(rgs) :
            a < b =>
              /\ rgs[a].rg # rgs[b].rg
              /\ RgScore(full_db[at(a)]) >= RgScore(full_db[at(b)])
              /\ RgScore(full_db[at(a)]) = RgScore(full_db[at(b)]) => at(a) < at(b)

\* Two groups of the same score, group 2 before group 1 in the database, and
\* in that order in the index.
C18_Witness ==
  /\ lookupFile # NoLookup
  /\ Len(full_db) = 2
  /\ full_db[1].rg = 2
  /\ RgScore(full_db[1]) = RgScore(full_db[2])
  /\ lookupFile.release_groups[1].rg = 2
  /\ lookupFile.release_groups[2].rg = 1

(***************************************************************************)
(* The growth of the database within a run, under Spec.                    *)
(***************************************************************************)
\* Sequence a is a prefix of sequence b.
IsPrefix(a, b) == Len(a) <= Len(b) /\ SubSeq(b, 1, Len(a)) = a

\* Every group of the database before the step is in the database after it,
\* with a track list that extends the old one and a track_count no smaller.
DbGrows ==
  \A k \in 1..Len(final_db) :
    \E k2 \in 1..Len(final_db') :
      /\ final_db'[k2].rg = final_db[k].rg
      /\ IsPrefix(final_db[k].tracks, final_db'[k2].tracks)
      /\ final_db'[k2].track_count >= final_db[k].track_count

\* C19: the database only grows.  No step of a crawl run loses a
\* release-group id, shortens or rewrites the tracks a group already has, or
\* lowers a track_count.
C19_DatabaseOnlyGrows == [][Running => DbGrows]_vars

\* A resumed run has added to what it loaded: both groups are there, one with
\* three tracks, and releases were merged after the load.
C19_Witness ==
  /\ runs = 2
  /\ pc = "detail"
  /\ startProcessed # {}
  /\ processed_rel_ids # startProcessed
  /\ Len(final_db) = 2
  /\ \E k \in 1..2 : Len(final_db[k].tracks) = 3 /\ final_db[k].track_count = 3

(***************************************************************************)
(* The two persisted files against each other, under Spec.                 *)
(***************************************************************************)
\* What a reader of the database file gets: its groups, or nothing when the
\* file is missing or is not a JSON document.
PersistedDb ==
  IF dbFile.exists /\ JsonValid(dbFile.data, "{", "}")
  THEN LoadDb(dbFile.data) ELSE <<>>

\* The release is folded into the database: its group is there and folding it
\* again would add nothing.
FoldedInto(db, k) ==
  /\ Find(db, Release(k).rg.id) # 0
  /\ Fold(db, Release(k), Detail(k)) = db

\* C20: persisted checkpoint consistency.  Wherever the crawler dies, every
\* release id in the persisted ProcessedSet is folded into the persisted
\* database.
C20_PersistedConsistency ==
  pc = "crashed" => \A k \in PersistedIds : FoldedInto(PersistedDb, k)

====
